---- MODULE Spec2Model ----
(***************************************************************************)
(* The image-to-number extraction pipeline of the IndiaOCR application:    *)
(*   - extractIndianNumbers and performOCR   (services/ocrService)         *)
(*   - preprocessImage                       (services/imageProcessing.ts) *)
(*   - handleFileUpload and clearResults     (App component)               *)
(*                                                                         *)
(* A text is a sequence of one-character strings.  An optional field of a  *)
(* JavaScript object (rawText?, error?) is <<>> when it is undefined and   *)
(* <<v>> when it holds v.                                                  *)
(***************************************************************************)
EXTENDS Integers, Sequences, FiniteSets, TLC

\* ------------------------------------------------------------------ bounds

\* Longest batch whose processing is explored.
MaxFiles == 3

\* How many files more than MAX_FILES an upload may offer (SpecSubmit).
MaxExcess == 2

\* Longest text, in pieces, given to extractIndianNumbers (SpecExtract).
MaxPieces == 3

\* Largest width and height, in pixels, of an enhanced image (SpecEnhance).
MaxSide == 4

\* const MAX_FILES = 20;
MAX_FILES == 20

\* ----------------------------------------------------------------- helpers

Undefined == <<>>

Min(a, b) == IF a < b THEN a ELSE b

Digits == {"0", "1", "2", "3", "4", "5", "6", "7", "8", "9"}

\* \w of a JavaScript regular expression, over the characters of the model.
WordChars == Digits \cup {"a", "x", "_"}

IsDigit(c) == c \in Digits

IsWordChar(c) == c \in WordChars

\* ------------------------------------------------- extractIndianNumbers

\* The literal lit occurs in t at position s.
HasAt(t, s, lit) ==
    /\ s + Len(lit) - 1 <= Len(t)
    /\ \A j \in 1..Len(lit) : t[s + j - 1] = lit[j]

\* [ -] at position s.
SepAt(t, s) == s <= Len(t) /\ t[s] \in {" ", "-"}

\* ([6-9]\d{9})\b matches at position c: ten digits, the first in 6..9, and a
\* word boundary after the tenth (the end of the text or a non-word character).
CaptureAt(t, c) ==
    /\ c + 9 <= Len(t)
    /\ t[c] \in {"6", "7", "8", "9"}
    /\ \A j \in 1..9 : IsDigit(t[c + j])
    /\ (c + 10 > Len(t) \/ ~IsWordChar(t[c + 10]))

\* Mutant of MatchAt: the whole match is kept, its prefix and separator
\* included, instead of the capture group.
MatchAt_KeepsPrefix(t, s) ==
    IF \/ HasAt(t, s, <<"+", "9", "1">>) /\ SepAt(t, s + 3) /\ CaptureAt(t, s + 4)
       \/ HasAt(t, s, <<"+", "9", "1">>) /\ CaptureAt(t, s + 3)
       \/ HasAt(t, s, <<"9", "1">>) /\ SepAt(t, s + 2) /\ CaptureAt(t, s + 3)
       \/ HasAt(t, s, <<"9", "1">>) /\ CaptureAt(t, s + 2)
       \/ HasAt(t, s, <<"0">>) /\ SepAt(t, s + 1) /\ CaptureAt(t, s + 2)
       \/ HasAt(t, s, <<"0">>) /\ CaptureAt(t, s + 1)
       \/ SepAt(t, s) /\ CaptureAt(t, s + 1)
       \/ CaptureAt(t, s)
    THEN s
    ELSE 0

\* Where the capture group starts in the match attempted at s; 0 when the
\* regular expression does not match at s.  The backtracking matcher tries the
\* prefix alternatives \+91, 91, 0 and then no prefix, each first with and then
\* without the separator, and keeps the first one after which the capture group
\* and the word boundary match.
MatchAt(t, s) ==
    IF HasAt(t, s, <<"+", "9", "1">>) /\ SepAt(t, s + 3) /\ CaptureAt(t, s + 4)
    THEN s + 4
    ELSE IF HasAt(t, s, <<"+", "9", "1">>) /\ CaptureAt(t, s + 3) THEN s + 3
    ELSE IF HasAt(t, s, <<"9", "1">>) /\ SepAt(t, s + 2) /\ CaptureAt(t, s + 3)
    THEN s + 3
    ELSE IF HasAt(t, s, <<"9", "1">>) /\ CaptureAt(t, s + 2) THEN s + 2
    ELSE IF HasAt(t, s, <<"0">>) /\ SepAt(t, s + 1) /\ CaptureAt(t, s + 2)
    THEN s + 2
    ELSE IF HasAt(t, s, <<"0">>) /\ CaptureAt(t, s + 1) THEN s + 1
    ELSE IF SepAt(t, s) /\ CaptureAt(t, s + 1) THEN s + 1
    ELSE IF CaptureAt(t, s) THEN s
    ELSE 0

\* Mutant of SetAdd: an array's push instead of a Set's add.
SetAdd_Push(acc, x) == Append(acc, x)

\* results.add(x) on a Set kept in insertion order.
SetAdd(acc, x) ==
    IF \E n \in 1..Len(acc) : acc[n] = x THEN acc ELSE Append(acc, x)

\* Mutant of MatchAll: the regular expression has lost its g flag, only the
\* first match is found.
MatchAll_FirstOnly(t) ==
    LET scan[s \in 1..(Len(t) + 1)] ==
            IF s > Len(t) THEN <<>>
            ELSE IF MatchAt(t, s) = 0 THEN scan[s + 1]
                 ELSE <<MatchAt(t, s)>>
    IN  scan[1]

\* text.matchAll(regex): where the capture group starts in each match, the
\* matches taken leftmost first, each next attempt starting where the previous
\* match ended (ten characters after the start of its capture).
MatchAll(t) ==
    LET scan[s \in 1..(Len(t) + 1)] ==
            IF s > Len(t) THEN <<>>
            ELSE IF MatchAt(t, s) = 0 THEN scan[s + 1]
                 ELSE <<MatchAt(t, s)>> \o scan[MatchAt(t, s) + 10]
    IN  scan[1]

\* Mutant of extractIndianNumbers: the last digit of the capture is dropped.
extractIndianNumbers_NineDigits(text) ==
    LET ArrayFrom(matches) ==
            LET added[n \in 0..Len(matches)] ==
                    IF n = 0 THEN <<>>
                    ELSE SetAdd(added[n - 1],
                                <<"9", "1">> \o
                                SubSeq(text, matches[n], matches[n] + 8))
            IN  added[Len(matches)]
    IN  CHOOSE numbers \in {ArrayFrom(matches) : matches \in {MatchAll(text)}} :
            TRUE

\* const results = new Set(); for (const match of matches)
\* results.add(`91${match[1]}`); return Array.from(results): the normalized
\* numbers, each once, in first-seen order.  matches is bound once, as the
\* iterator is consumed once.
extractIndianNumbers(text) ==
    LET ArrayFrom(matches) ==
            LET added[n \in 0..Len(matches)] ==
                    IF n = 0 THEN <<>>
                    ELSE SetAdd(added[n - 1],
                                <<"9", "1">> \o
                                SubSeq(text, matches[n], matches[n] + 9))
            IN  added[Len(matches)]
    IN  CHOOSE numbers \in {ArrayFrom(matches) : matches \in {MatchAll(text)}} :
            TRUE

\* ------------------------------------------------------- model inputs

\* file.name of the files a user can pick.
Names == {"a.png", "b.png"}

Number1 == <<"9", "8", "7", "6", "5", "4", "3", "2", "1", "0">>

Number2 == <<"6", "1", "2", "3", "4", "5", "6", "7", "8", "9">>

\* "09876543210 +91-6123456789 9876543210"
TextTwoNumbers ==
    <<"0">> \o Number1 \o <<" ", "+", "9", "1", "-">> \o Number2 \o <<" ">> \o Number1

\* Texts worker.recognize can return: the empty text and one with numbers.
Texts == {<<>>, TextTwoNumbers}

\* What the texts given to extractIndianNumbers are put together from: ten-
\* digit numbers, the prefixes, separators, a letter and a digit.
Pieces ==
    {Number1, Number2, <<"+", "9", "1">>, <<"9", "1">>, <<"0">>,
     <<" ">>, <<"-">>, <<"a">>, <<"1">>}

\* The texts of at most n pieces.
RECURSIVE PieceTexts(_)
PieceTexts(n) ==
    IF n = 0 THEN {<<>>}
    ELSE LET shorter == PieceTexts(n - 1)
         IN  shorter \cup {t \o p : t \in shorter, p \in Pieces}

\* "+91 9876543210", "919876543210" and "09876543210"
Variants ==
    << <<"+", "9", "1", " ">> \o Number1, <<"9", "1">> \o Number1, <<"0">> \o Number1 >>

\* The three prefix variants of Number1 in one text, in every order, with
\* nothing, a space, a newline or a letter between them and after the last.
VariantTexts ==
    {Variants[o[1]] \o j \o Variants[o[2]] \o j \o Variants[o[3]] \o tail :
        o \in {p \in [1..3 -> 1..3] : \A a, b \in 1..3 : a # b => p[a] # p[b]},
        j \in {<<>>, <<" ">>, <<"\n">>, <<"a">>}, tail \in {<<>>, <<"a">>}}

\* The texts worker.recognize returns in SpecExtract.
ExtractTexts == PieceTexts(MaxPieces) \cup VariantTexts

\* m.progress of a logger event, in thousandths (0.336 is 336).
Fractions == {0, 336, 1000}

\* m.status of a logger event.
Statuses == {"loading tesseract core", "recognizing text"}

Events == [status : Statuses, progress : Fractions]

\* A file list of n files: the k-th file is named by k's parity, r says which
\* name comes first.
FileList(n, r) == [k \in 1..n |-> IF k % 2 = r THEN "a.png" ELSE "b.png"]

\* e.target.files of an upload whose processing is explored.
Batches == {FileList(n, r) : n \in 0..MaxFiles, r \in {0, 1}}

\* e.target.files of any upload, up to MaxExcess files beyond MAX_FILES.
Uploads == {FileList(n, r) : n \in 0..(MAX_FILES + MaxExcess), r \in {0, 1}}

\* The ids Math.random().toString(36).substr(2, 9) gives n files.  The ids are
\* opaque strings that are only compared for equality, and nothing makes two
\* draws differ, so an assignment is represented by its equality pattern: the
\* first file has id 1 and every later file has an id already drawn or the
\* next unused one.
IdDraws(n) ==
    {f \in [1..n -> 1..n] :
        \A k \in 1..n :
            \/ k = 1 /\ f[k] = 1
            \/ k > 1 /\ (\/ \E j \in 1..(k - 1) : f[j] = f[k]
                         \/ /\ \A j \in 1..(k - 1) : f[j] < f[k]
                            /\ \E j \in 1..(k - 1) : f[j] = f[k] - 1)}

\* The draws explored for an upload longer than MaxFiles: all ids differ, or
\* the last two agree.
LongIdDraws(n) ==
    {[k \in 1..n |-> k], [k \in 1..n |-> IF k = n THEN n - 1 ELSE k]}

\* The draws explored for the n files an upload is cut to.
DrawsFor(n) == IF n <= MaxFiles THEN IdDraws(n) ELSE LongIdDraws(n)

\* ------------------------------------------------------------ error values

\* What a stage rejects with.
\* reject('Could not get canvas context'): a string.
CanvasError == [kind |-> "string", value |-> "Could not get canvas context"]

\* img.onerror = reject: the Event of the failed image load.
DecodeError == [kind |-> "Event", value |-> "error"]

\* reader.onerror = reject: the ProgressEvent of the failed read.
ReadError == [kind |-> "ProgressEvent", value |-> "error"]

\* throw new Error('Failed to extract text from image')
OCRError == [kind |-> "Error", value |-> "Failed to extract text from image"]

PreprocessErrors == {CanvasError, DecodeError, ReadError}

\* error.message: the message of an Error object; a string or an Event has no
\* such property and the access gives undefined.
MessageOf(e) == IF e.kind = "Error" THEN <<e.value>> ELSE Undefined

\* Math.round(progress * 100), progress in thousandths.
MathRound100(f) == (f * 100 + 500) \div 1000

\* ------------------------------------------------------------ preprocessImage

\* An image as ctx.getImageData returns it: w * h pixels of four bytes (red,
\* green, blue, alpha) in rows, at offsets 0 .. 4 * w * h - 1.  The images of
\* the model are opaque, so putImageData and getImageData give back the bytes
\* that were put.
Offsets(w, h) == 0..(4 * w * h - 1)

\* A w * h image of one gray level v.
FlatImage(w, h, v) ==
    [w |-> w, h |-> h,
     data |-> [o \in Offsets(w, h) |-> IF o % 4 = 3 THEN 255 ELSE v]]

\* Gray levels around the two thresholds.
GrayLevels == {0, 49, 50, 89, 128, 129, 255}

\* The decoded images of SpecEnhance.
FlatImages ==
    {FlatImage(w, h, v) : w \in 1..MaxSide, h \in 1..MaxSide, v \in GrayLevels}

\* The decoded image of the other specifications.
Images == {FlatImage(1, 1, 89)}

\* A store into a Uint8ClampedArray, of an integer.
Uint8Clamped(x) == IF x < 0 THEN 0 ELSE IF x > 255 THEN 255 ELSE x

\* A store into a Uint8ClampedArray of sum / 3: rounded to the nearest integer
\* (a third is never half way).
Uint8ClampedThird(sum) == Uint8Clamped((2 * sum + 3) \div 6)

\* Lines 25-32: avg = (R + G + B) / 3; value = avg > 128 ? 255 : (avg < 50 ? 0
\* : avg) is stored in the three colour bytes of the pixel, alpha is left.
GrayscaleContrast(data) ==
    [o \in DOMAIN data |->
        IF o % 4 = 3 THEN data[o]
        ELSE LET p == o - (o % 4)
                 sum == data[p] + data[p + 1] + data[p + 2]
             IN  IF sum > 3 * 128 THEN 255
                 ELSE IF sum < 3 * 50 THEN 0
                 ELSE Uint8ClampedThird(sum)]

\* Mutant of weights: the centre weight is 4, the weights sum to 0.
weights_CentreFour == <<0, -1, 0, -1, 4, -1, 0, -1, 0>>

\* const weights = [0, -1, 0, -1, 5, -1, 0, -1, 0];
weights == <<0, -1, 0, -1, 5, -1, 0, -1, 0>>

\* const side = Math.round(Math.sqrt(weights.length));
side == 3

\* const halfSide = Math.floor(side / 2);
halfSide == side \div 2

\* Lines 63-87: the colour byte c of the output pixel (x, y) is the sum over the
\* kernel of weight * source byte, the neighbours outside the image left out,
\* stored into a Uint8ClampedArray; alpha is 255.
sharpen(src, w, h) ==
    [o \in Offsets(w, h) |->
        IF o % 4 = 3 THEN 255
        ELSE LET c == o % 4
                 x == (o \div 4) % w
                 y == (o \div 4) \div w
                 sum[n \in 0..(side * side)] ==
                     IF n = 0 THEN 0
                     ELSE LET cy == (n - 1) \div side
                              cx == (n - 1) % side
                              scy == y + cy - halfSide
                              scx == x + cx - halfSide
                          IN  IF scy >= 0 /\ scy < h /\ scx >= 0 /\ scx < w
                              THEN sum[n - 1]
                                   + src[(scy * w + scx) * 4 + c] * weights[n]
                              ELSE sum[n - 1]
             IN  Uint8Clamped(sum[side * side])]

\* ------------------------------------------------------------------- state

VARIABLES
    results,       \* useState<ProcessingResult[]>: the job list
    isProcessing,  \* useState(false)
    pc,            \* where the running handleFileUpload is suspended
    i,             \* its loop index (1-based)
    ids,           \* initialResults[k].id of its batch
    text,          \* the text recognize returned, while terminate is awaited
    workers,       \* jobs of this batch whose Tesseract worker is alive
    orphans,       \* a worker of an earlier batch is still alive
    ocrText,       \* per job of this batch, the text performOCR returned
    uploaded,      \* e.target.files of the upload that started this batch
    canvas         \* the canvas of the latest preprocessImage: what was drawn, what
                   \* it holds in the end

vars == <<results, isProcessing, pc, i, ids, text, workers, orphans, ocrText, uploaded, canvas>>

\* One ProcessingResult as handleFileUpload creates it.  previewUrl is left
\* out: it is only handed to the <img> element and to URL.revokeObjectURL.
NewResult(id, name) ==
    [id |-> id, fileName |-> name, status |-> "pending", progress |-> 0,
     rawText |-> Undefined, numbers |-> <<>>, error |-> Undefined]

\* Mutant of MapWhereId: an update that finds the list empty puts the job
\* back.
MapWhereId_PutsBack(prev, resultId, mapped) ==
    IF prev = <<>> THEN <<NewResult(resultId, "a.png")>>
    ELSE [k \in 1..Len(prev) |-> IF prev[k].id = resultId THEN mapped[k] ELSE prev[k]]

\* prev.map(r => r.id === resultId ? f(r) : r), with mapped[k] = f(prev[k]).
MapWhereId(prev, resultId, mapped) ==
    [k \in 1..Len(prev) |-> IF prev[k].id = resultId THEN mapped[k] ELSE prev[k]]

\* { ...r, status: 'processing' }
ToProcessing(r) == [r EXCEPT !.status = "processing"]

\* { ...r, progress: Math.round(progress * 100) }
WithProgress(r, progress) == [r EXCEPT !.progress = MathRound100(progress)]

\* { ...r, status: 'completed', progress: 100, rawText: text, numbers }
ToCompleted(r, t, numbers) ==
    [r EXCEPT !.status = "completed", !.progress = 100,
              !.rawText = <<t>>, !.numbers = numbers]

\* { ...r, status: 'error', error: error.message }
ToError(r, e) == [r EXCEPT !.status = "error", !.error = MessageOf(e)]

Init ==
    /\ results = <<>>
    /\ isProcessing = FALSE
    /\ pc = "idle"
    /\ i = 0
    /\ ids = <<>>
    /\ text = Undefined
    /\ workers = {}
    /\ orphans = FALSE
    /\ ocrText = <<>>
    /\ uploaded = <<>>
    /\ canvas = Undefined

\* --------------------------------------------------------- handleFileUpload

\* Mutant of AcceptedFiles: the slice is missing.
AcceptedFiles_NoLimit(fileList) == fileList

\* Array.from(e.target.files || []).slice(0, MAX_FILES)
AcceptedFiles(fileList) == SubSeq(fileList, 1, Min(Len(fileList), MAX_FILES))

\* Mutant of handleFileUpload: the <input> is not disabled while isProcessing,
\* a change event is handled whenever it comes.
handleFileUpload_NotDisabled(fileList, draw) ==
    LET files == AcceptedFiles(fileList)
    IN  IF Len(files) = 0
        THEN UNCHANGED vars
        ELSE /\ isProcessing' = TRUE
             /\ results' = [k \in 1..Len(files) |-> NewResult(draw[k], files[k])]
             /\ ids' = [k \in 1..Len(files) |-> draw[k]]
             /\ i' = 1
             /\ pc' = "loop"
             /\ text' = Undefined
             /\ orphans' = (orphans \/ workers # {})
             /\ workers' = {}
             /\ ocrText' = [k \in 1..Len(files) |-> Undefined]
             /\ uploaded' = fileList
             /\ canvas' = canvas

\* Lines 54-71.  The <input> is disabled while isProcessing.  The file list is
\* cut to MAX_FILES, an empty list returns at once, and otherwise one pending
\* result per file is published; draw[k] is the id Math.random gives file k.
handleFileUpload(fileList, draw) ==
    /\ ~isProcessing
    /\ pc = "idle"
    /\ LET files == AcceptedFiles(fileList)
       IN  IF Len(files) = 0
           THEN UNCHANGED vars
           ELSE /\ isProcessing' = TRUE
                /\ results' = [k \in 1..Len(files) |-> NewResult(draw[k], files[k])]
                /\ ids' = [k \in 1..Len(files) |-> draw[k]]
                /\ i' = 1
                /\ pc' = "loop"
                /\ text' = Undefined
                /\ orphans' = (orphans \/ workers # {})
                /\ workers' = {}
                /\ ocrText' = [k \in 1..Len(files) |-> Undefined]
                /\ uploaded' = fileList
                /\ canvas' = canvas

\* for (let i = 0; i < files.length; i++) with i in range: the job is marked
\* 'processing' and preprocessImage(file) is awaited (lines 74-84).
BeginJob ==
    /\ pc = "loop"
    /\ i <= Len(ids)
    /\ results' = MapWhereId(results, ids[i],
                    [k \in 1..Len(results) |-> ToProcessing(results[k])])
    /\ pc' = "preprocess"
    /\ UNCHANGED <<isProcessing, i, ids, text, workers, orphans, ocrText, uploaded, canvas>>

\* The loop condition fails: setIsProcessing(false) and the handler returns
\* (lines 105-107).
EndBatch ==
    /\ pc = "loop"
    /\ i > Len(ids)
    /\ isProcessing' = FALSE
    /\ pc' = "idle"
    /\ i' = 0
    /\ ids' = <<>>
    /\ UNCHANGED <<results, text, workers, orphans, ocrText, uploaded, canvas>>

\* Mutant of Catch: the failure of a job also drops the job after it.
Catch_SkipsNext(e) ==
    /\ results' = MapWhereId(results, ids[i],
                    [k \in 1..Len(results) |-> ToError(results[k], e)])
    /\ i' = IF i < Len(ids) THEN i + 2 ELSE i + 1
    /\ pc' = "loop"
    /\ text' = Undefined

\* Mutant of Catch: no try/catch around the stages, the error leaves the
\* handler and setIsProcessing(false) is never reached.
Catch_Escapes(e) ==
    /\ results' = results
    /\ i' = i
    /\ pc' = "idle"
    /\ text' = Undefined

\* catch (error) { setResults(... status: 'error', error: error.message ...) }
\* and the loop goes on with the next file (lines 102-105).
Catch(e) ==
    /\ results' = MapWhereId(results, ids[i],
                    [k \in 1..Len(results) |-> ToError(results[k], e)])
    /\ i' = i + 1
    /\ pc' = "loop"
    /\ text' = Undefined

\* img.onload of preprocessImage for the decoded image img: the image is drawn
\* on a canvas of its size, thresholded and sharpened, and the promise is
\* resolved with the data URL (imageProcessing.ts 11-43); performOCR starts and
\* awaits Tesseract.createWorker (ocrService 32).
preprocessImageResolve(img) ==
    /\ pc = "preprocess"
    /\ canvas' = <<[w |-> img.w, h |-> img.h, drawn |-> img.data,
                    data |-> sharpen(GrayscaleContrast(img.data), img.w, img.h)]>>
    /\ pc' = "createWorker"
    /\ UNCHANGED <<results, isProcessing, i, ids, text, workers, orphans, ocrText, uploaded>>

\* preprocessImage rejects: no canvas context, the image does not decode, or
\* the file cannot be read (imageProcessing.ts 14, 44, 47).
preprocessImageReject(e) ==
    /\ pc = "preprocess"
    /\ Catch(e)
    /\ UNCHANGED <<isProcessing, ids, workers, orphans, ocrText, uploaded, canvas>>

\* ---------------------------------------------------------------- performOCR

\* createWorker resolves: the worker lives, worker.recognize is awaited.
createWorkerResolve ==
    /\ pc = "createWorker"
    /\ workers' = workers \cup {i}
    /\ pc' = "recognize"
    /\ UNCHANGED <<results, isProcessing, i, ids, text, orphans, ocrText, uploaded, canvas>>

\* createWorker rejects: performOCR's catch throws OCRError (lines 43-46).
createWorkerReject ==
    /\ pc = "createWorker"
    /\ Catch(OCRError)
    /\ UNCHANGED <<isProcessing, ids, workers, orphans, ocrText, uploaded, canvas>>

\* Mutant of logger: the status of the event is not looked at, every event is
\* forwarded to onProgress.
logger_ForwardsAll(m) ==
    /\ pc \in {"createWorker", "recognize"}
    /\ m.status = "recognizing text" => pc = "recognize"
    /\ results' = MapWhereId(results, ids[i],
                    [k \in 1..Len(results) |-> WithProgress(results[k], m.progress)])
    /\ UNCHANGED <<isProcessing, pc, i, ids, text, workers, orphans, ocrText, uploaded, canvas>>

\* The logger given to createWorker, called by the engine with event m while
\* the worker is being created or is recognizing (lines 33-37); onProgress is
\* the callback of handleFileUpload (lines 87-89).  The engine reports
\* 'recognizing text' only from within worker.recognize.
logger(m) ==
    /\ pc \in {"createWorker", "recognize"}
    /\ m.status = "recognizing text" => pc = "recognize"
    /\ results' =
         IF m.status = "recognizing text"
         THEN MapWhereId(results, ids[i],
                [k \in 1..Len(results) |-> WithProgress(results[k], m.progress)])
         ELSE results
    /\ UNCHANGED <<isProcessing, pc, i, ids, text, workers, orphans, ocrText, uploaded, canvas>>

\* worker.recognize resolves with the text; worker.terminate() is awaited.
recognizeResolve(t) ==
    /\ pc = "recognize"
    /\ text' = <<t>>
    /\ pc' = "terminate"
    /\ UNCHANGED <<results, isProcessing, i, ids, workers, orphans, ocrText, uploaded, canvas>>

\* worker.recognize rejects: control goes to performOCR's catch, which throws
\* OCRError; nothing terminates the worker.
recognizeReject ==
    /\ pc = "recognize"
    /\ Catch(OCRError)
    /\ UNCHANGED <<isProcessing, ids, workers, orphans, ocrText, uploaded, canvas>>

\* worker.terminate() resolves: the worker is gone, performOCR returns the
\* text, the numbers are extracted and the job is completed (lines 92-100).
terminateResolve ==
    /\ pc = "terminate"
    /\ workers' = workers \ {i}
    /\ ocrText' = [ocrText EXCEPT ![i] = text]
    /\ results' = MapWhereId(results, ids[i],
                    [k \in 1..Len(results) |->
                        ToCompleted(results[k], text[1], extractIndianNumbers(text[1]))])
    /\ i' = i + 1
    /\ pc' = "loop"
    /\ text' = Undefined
    /\ UNCHANGED <<isProcessing, ids, orphans, uploaded, canvas>>

\* worker.terminate() rejects: performOCR's catch throws OCRError.  Whether the
\* worker is still alive after a failed terminate is the engine's choice.
terminateReject ==
    /\ pc = "terminate"
    /\ workers' \in {workers, workers \ {i}}
    /\ Catch(OCRError)
    /\ UNCHANGED <<isProcessing, ids, orphans, ocrText, uploaded, canvas>>

\* ---------------------------------------------------------------- clearResults

\* Lines 125-129; the button is rendered while results is not empty and is
\* never disabled.
clearResults ==
    /\ Len(results) > 0
    /\ results' = <<>>
    /\ UNCHANGED <<isProcessing, pc, i, ids, text, workers, orphans, ocrText, uploaded, canvas>>

\* ------------------------------------------------------------ specifications

Upload == \E fileList \in Batches : \E draw \in IdDraws(Len(fileList)) :
              handleFileUpload(fileList, draw)

\* The enhancer succeeds; the pixels have no influence on what follows, one
\* image stands for all.
Enhanced == \E img \in Images : preprocessImageResolve(img)

PreprocessFails == \E e \in PreprocessErrors : preprocessImageReject(e)

EngineEvent == \E m \in Events : logger(m)

Recognized == \E t \in Texts : recognizeResolve(t)

\* The steps of the running handler: the settling of what it awaits.
LoopStep ==
    \/ BeginJob
    \/ EndBatch
    \/ Enhanced
    \/ PreprocessFails
    \/ createWorkerResolve
    \/ createWorkerReject
    \/ Recognized
    \/ recognizeReject
    \/ terminateResolve
    \/ terminateReject

Next ==
    \/ Upload
    \/ LoopStep
    \/ EngineEvent
    \/ clearResults

Spec == Init /\ [][Next]_vars

\* Every call the handler awaits eventually returns or fails.
FairSpec == Spec /\ WF_vars(LoopStep)

\* The submission alone, for uploads of every length up to MAX_FILES +
\* MaxExcess: what handleFileUpload publishes before its loop starts.
UploadAny == \E fileList \in Uploads :
                 \E draw \in DrawsFor(Len(AcceptedFiles(fileList))) :
                     handleFileUpload(fileList, draw)

NextSubmit ==
    \/ UploadAny
    \/ clearResults

SpecSubmit == Init /\ [][NextSubmit]_vars

\* One file at a time whose stages all succeed, recognized as any of the
\* ExtractTexts: what extractIndianNumbers returns for each of them.
UploadOne == \E fileList \in {FileList(1, 0), FileList(1, 1)} :
                 handleFileUpload(fileList, <<1>>)

RecognizedAny == \E t \in ExtractTexts : recognizeResolve(t)

NextExtract ==
    \/ UploadOne
    \/ BeginJob
    \/ Enhanced
    \/ createWorkerResolve
    \/ RecognizedAny
    \/ terminateResolve
    \/ EndBatch

SpecExtract == Init /\ [][NextExtract]_vars

\* One file at a time, decoded as any of the FlatImages: what preprocessImage
\* leaves on its canvas for each of them.
EnhancedAny == \E img \in FlatImages : preprocessImageResolve(img)

NextEnhance ==
    \/ UploadOne
    \/ BeginJob
    \/ EnhancedAny
    \/ createWorkerReject
    \/ EndBatch

SpecEnhance == Init /\ [][NextEnhance]_vars

\* ------------------------------------------------------------------ claims

Jobs == 1..Len(results)

Terminal(st) == st \in {"completed", "error"}

\* The jobs shown as being processed.
Processing == {k \in Jobs : results[k].status = "processing"}

\* No two jobs of the list carry the same id.
IdsDistinct == \A j, k \in Jobs : j # k => results[j].id # results[k].id

\* C1: in every reachable state at most one job of the results list has status
\* 'processing'.
C1_AtMostOneProcessing == Cardinality(Processing) <= 1

\* C1, for the batches whose ids are pairwise distinct: there the sequential
\* loop keeps at most one job in 'processing'.
C1_AtMostOneProcessingIfIdsDistinct == IdsDistinct => C1_AtMostOneProcessing

\* C2: an upload of F files publishes exactly min(F, MAX_FILES) jobs, in input
\* order, every one 'pending' with progress 0, no numbers, no text and no
\* error; the files beyond MAX_FILES get no job.
C2_PublishesPendingJobs ==
    [][(~isProcessing /\ isProcessing') =>
          LET n == Min(Len(uploaded'), MAX_FILES)
          IN  /\ Len(results') = n
              /\ \A k \in 1..n :
                    /\ results'[k].fileName = uploaded'[k]
                    /\ results'[k].status = "pending"
                    /\ results'[k].progress = 0
                    /\ results'[k].numbers = <<>>
                    /\ results'[k].rawText = Undefined
                    /\ results'[k].error = Undefined]_vars

\* C2 witness: an upload of more than MAX_FILES files has just been published.
C2_Witness ==
    /\ Len(uploaded) > MAX_FILES
    /\ Len(results) = MAX_FILES
    /\ \A k \in Jobs : results[k].status = "pending"

\* A step that publishes the jobs of a new batch.
IsUploadStep == ~isProcessing /\ isProcessing'

\* The jobs that are in the list before and after a step of the same batch.
Kept == IF IsUploadStep THEN {} ELSE {k \in Jobs : k <= Len(results')}

\* C3: jobs enter 'processing' in submission order and job k+1 enters it only
\* after job k is 'completed' or 'error': while job k is not terminal, every
\* job after it is 'pending'.
C3_LaterJobsPending ==
    \A k \in Jobs :
        ~Terminal(results[k].status) =>
            \A j \in Jobs : j > k => results[j].status = "pending"

\* C3, for the batches whose ids are pairwise distinct.
C3_LaterJobsPendingIfIdsDistinct == IdsDistinct => C3_LaterJobsPending

\* The moves pending -> processing -> (completed | error), and standing still.
Forward(a, b) ==
    \/ a = b
    \/ a = "pending" /\ b = "processing"
    \/ a = "processing" /\ Terminal(b)

\* C5: the status of a job only moves forward along
\* pending -> processing -> (completed | error), and a terminal status never
\* changes again.
C5_StatusOnlyForward ==
    [][\A k \in Kept : Forward(results[k].status, results'[k].status)]_vars

\* C5, for the batches whose ids are pairwise distinct.
C5_StatusOnlyForwardIfIdsDistinct ==
    [][IdsDistinct => \A k \in Kept : Forward(results[k].status, results'[k].status)]_vars

\* C6: the progress of a job that is 'processing' is within 0..100 and does not
\* decrease from one state to the next while the job stays 'processing'.
C6_ProgressInRangeAndMonotone ==
    /\ [](\A k \in Processing : results[k].progress \in 0..100)
    /\ [][\A k \in Kept :
             (results[k].status = "processing" /\ results'[k].status = "processing")
                 => results'[k].progress >= results[k].progress]_vars

\* C6, the part the code keeps: the progress of every job is within 0..100.
C6_ProgressInRange == \A k \in Jobs : results[k].progress \in 0..100

\* The messages the failures of a stage carry: pc tells the stage awaited.
StageMessages(stage) ==
    IF stage = "preprocess" THEN {<<e.value>> : e \in PreprocessErrors}
    ELSE {<<OCRError.value>>}

\* C7: a job in status 'error' has its error field present, and the field is
\* set to the message of the stage that failed when the job fails.
C7_ErrorHasReason ==
    /\ [](\A k \in Jobs : results[k].status = "error" => results[k].error # Undefined)
    /\ [][\A k \in Kept :
             (results[k].status # "error" /\ results'[k].status = "error")
                 => results'[k].error \in StageMessages(pc)]_vars

\* C7, the part the code keeps: a job that fails in the recognition stage gets
\* the message of performOCR's Error.
C7_RecognitionErrorHasReason ==
    [][\A k \in Kept :
          (results[k].status # "error" /\ results'[k].status = "error"
           /\ pc # "preprocess")
              => results'[k].error = <<OCRError.value>>]_vars

\* C8: a 'completed' job has progress 100, has as rawText the text the
\* recognition step returned for that job, and has the numbers
\* extractIndianNumbers gives for that text.
C8_CompletedHasTextAndNumbers ==
    \A k \in Jobs :
        results[k].status = "completed" =>
            /\ results[k].progress = 100
            /\ results[k].rawText # Undefined
            /\ results[k].rawText = ocrText[k]
            /\ results[k].numbers = extractIndianNumbers(results[k].rawText[1])

\* C8 without the origin of the text: a 'completed' job has progress 100, a
\* rawText and the numbers extracted from that rawText.
C8_CompletedFields ==
    \A k \in Jobs :
        results[k].status = "completed" =>
            /\ results[k].progress = 100
            /\ results[k].rawText # Undefined
            /\ results[k].numbers = extractIndianNumbers(results[k].rawText[1])

\* C9: no worker outlives the performOCR call that created it: a worker is
\* alive only while its own job is being recognized, and none is alive when a
\* job enters 'processing'.
C9_NoWorkerOutlivesItsCall ==
    /\ ~orphans
    /\ workers \subseteq {i}
    /\ pc \notin {"recognize", "terminate"} => workers = {}

\* C9, the part the code keeps: a recognition that succeeds leaves no worker of
\* its own behind.
C9_SuccessTerminatesWorker ==
    [][(pc = "terminate" /\ ocrText' # ocrText) => i \notin workers']_vars

\* Job k of the running batch has not had its turn yet.
Waiting(k) == isProcessing /\ k <= Len(ids) /\ i < k

\* Job k of the running batch is in its turn.
InTurn(k) == isProcessing /\ i = k /\ pc = "preprocess"

\* C4 as claimed: no failure aborts or skips a later job, and each job whose
\* own stages all succeed reaches 'completed'.
C4_SucceedingJobsComplete ==
    \A k \in 1..MaxFiles :
        /\ Waiting(k) ~> InTurn(k)
        /\ InTurn(k) ~>
             (i > k /\ (\/ ocrText[k] = Undefined
                        \/ k \in Jobs /\ results[k].status = "completed"))

\* C4 as amended: no failure aborts or skips a later job, and each job whose
\* own stages all succeed is 'completed' when its turn ends, unless
\* clearResults has emptied the list by then.
C4_SucceedingJobsCompleteUnlessCleared ==
    \A k \in 1..MaxFiles :
        /\ Waiting(k) ~> InTurn(k)
        /\ InTurn(k) ~>
             (i > k /\ (\/ ocrText[k] = Undefined
                        \/ results = <<>>
                        \/ k \in Jobs /\ results[k].status = "completed"))

\* C4 witness: the enhancer failed for job 2 of 3 and jobs 1 and 3 are
\* 'completed'.
C4_Witness ==
    /\ ~isProcessing
    /\ Len(results) = 3
    /\ results[1].status = "completed"
    /\ results[2].status = "error" /\ results[2].error = Undefined
    /\ results[3].status = "completed"

\* C10 as claimed: every batch ends with isProcessing false again and with
\* every job of the batch 'completed' or 'error'.
C10_BatchEndsAllJobsTerminal ==
    isProcessing ~>
        (/\ ~isProcessing
         /\ Len(results) = Min(Len(uploaded), MAX_FILES)
         /\ \A k \in Jobs : Terminal(results[k].status))

\* C10 as amended: every batch ends with isProcessing false again and with
\* every job that is still in the list 'completed' or 'error'.
C10_BatchEnds ==
    isProcessing ~>
        (/\ ~isProcessing
         /\ \A k \in Jobs : Terminal(results[k].status))

\* C10 witness: a batch has ended in which the engine could not be constructed
\* for any job.
C10_Witness ==
    /\ ~isProcessing
    /\ Len(results) > 1
    /\ workers = {}
    /\ \A k \in Jobs :
          /\ results[k].status = "error"
          /\ results[k].error = <<OCRError.value>>
          /\ results[k].progress = 0

\* The completed jobs: rawText is the text extractIndianNumbers was given and
\* numbers is what it returned.
Completed == {k \in Jobs : results[k].status = "completed"}

\* C11: every element extractIndianNumbers returns is exactly 12 decimal
\* digits: "91" followed by the ten digits of a capture in the text, the first
\* of them in 6..9; prefix and separator of the match are not in it.
C11_TwelveDigitsFromCapture ==
    \A k \in Completed :
        LET t == results[k].rawText[1]
            numbers == results[k].numbers
        IN  \A n \in 1..Len(numbers) :
                /\ Len(numbers[n]) = 12
                /\ \A j \in 1..12 : IsDigit(numbers[n][j])
                /\ numbers[n][1] = "9" /\ numbers[n][2] = "1"
                /\ numbers[n][3] \in {"6", "7", "8", "9"}
                /\ \E c \in 1..Len(t) :
                      /\ CaptureAt(t, c)
                      /\ SubSeq(t, c, c + 9) = SubSeq(numbers[n], 3, 12)

\* C11 witness: "+91 9876543210" has given "919876543210".
C11_Witness ==
    \E k \in Completed :
        /\ results[k].rawText = <<Variants[1]>>
        /\ results[k].numbers = << <<"9", "1">> \o Number1 >>

\* The literal lit occurs somewhere in t.
Contains(t, lit) == \E s \in 1..Len(t) : HasAt(t, s, lit)

\* The literal lit occurs in t at a place where no word character follows it.
ContainsAtBoundary(t, lit) ==
    \E s \in 1..Len(t) :
        /\ HasAt(t, s, lit)
        /\ (s + Len(lit) > Len(t) \/ ~IsWordChar(t[s + Len(lit)]))

\* How often x is among the numbers.
Occurrences(numbers, x) == Cardinality({n \in 1..Len(numbers) : numbers[n] = x})

\* "919876543210"
Normalized1 == <<"9", "1">> \o Number1

\* C12 as claimed: for every text that contains "9876543210",
\* extractIndianNumbers returns "919876543210".
C12_FindsNumberInEveryText ==
    \A k \in Completed :
        Contains(results[k].rawText[1], Number1)
            => Occurrences(results[k].numbers, Normalized1) = 1

\* C12 as amended: for every text that contains "9876543210" not followed by a
\* word character (a digit, a letter or an underscore), extractIndianNumbers
\* returns "919876543210", once.
C12_FindsNumberAtBoundary ==
    \A k \in Completed :
        ContainsAtBoundary(results[k].rawText[1], Number1)
            => Occurrences(results[k].numbers, Normalized1) = 1

\* C12 witness: "9876543210" found after another number and a hyphen.
C12_Witness ==
    \E k \in Completed :
        /\ results[k].rawText = <<Number2 \o <<"-">> \o Number1>>
        /\ results[k].numbers = << <<"9", "1">> \o Number2, Normalized1 >>

\* The normalized number of the n-th match in t.
NormalizedMatch(t, n) ==
    <<"9", "1">> \o SubSeq(t, MatchAll(t)[n], MatchAll(t)[n] + 9)

\* The first match in t that gives the number x; 0 when none does.
FirstMatch(t, x) ==
    LET giving == {n \in 1..Len(MatchAll(t)) : NormalizedMatch(t, n) = x}
    IN  IF giving = {} THEN 0 ELSE CHOOSE n \in giving : \A m \in giving : n <= m

\* Each number once, every match's number among them, in the order of their
\* first matches.
OnceInFirstMatchOrder(t, numbers) ==
    /\ \A a, b \in 1..Len(numbers) : a # b => numbers[a] # numbers[b]
    /\ \A n \in 1..Len(MatchAll(t)) : Occurrences(numbers, NormalizedMatch(t, n)) = 1
    /\ \A a \in 1..Len(numbers) : FirstMatch(t, numbers[a]) # 0
    /\ \A a, b \in 1..Len(numbers) :
          a < b => FirstMatch(t, numbers[a]) < FirstMatch(t, numbers[b])

\* The three prefix variants of Number1 all occur in t.
HasVariants(t) == \A v \in 1..3 : Contains(t, Variants[v])

\* C13 as claimed: extractIndianNumbers returns each normalized number at most
\* once, in the order of first matches, and exactly one "919876543210" for
\* every text in which the three prefix variants occur together.
C13_DedupAndOneOfVariants ==
    \A k \in Completed :
        /\ OnceInFirstMatchOrder(results[k].rawText[1], results[k].numbers)
        /\ HasVariants(results[k].rawText[1])
              => Occurrences(results[k].numbers, Normalized1) = 1

\* C13 as amended: each normalized number at most once, in the order of first
\* matches; a text with the three prefix variants gives at most one
\* "919876543210", and exactly one when one of the variants is not followed by
\* a word character.
C13_DedupAndOneOfVariantsAtBoundary ==
    \A k \in Completed :
        /\ OnceInFirstMatchOrder(results[k].rawText[1], results[k].numbers)
        /\ HasVariants(results[k].rawText[1])
              => /\ Occurrences(results[k].numbers, Normalized1) <= 1
                 /\ ContainsAtBoundary(results[k].rawText[1], Number1)
                       => Occurrences(results[k].numbers, Normalized1) = 1

\* C13 witness: the three variants, separated by spaces, have given one number.
C13_Witness ==
    \E k \in Completed :
        /\ results[k].rawText =
              <<Variants[1] \o <<" ">> \o Variants[2] \o <<" ">> \o Variants[3]>>
        /\ results[k].numbers = <<Normalized1>>

\* numbers.join(sep)
RECURSIVE Join(_, _)
Join(numbers, sep) ==
    IF numbers = <<>> THEN <<>>
    ELSE IF Len(numbers) = 1 THEN numbers[1]
    ELSE numbers[1] \o sep \o Join(Tail(numbers), sep)

\* The separators the extracted numbers are joined with: a space, a newline,
\* a comma with a space, a hyphen.
Joiners == {<<" ">>, <<"\n">>, <<",", " ">>, <<"-">>}

DrawnMidGray(v) ==
    /\ canvas # Undefined
    /\ v \in 50..128
    /\ \A o \in DOMAIN canvas[1].drawn : o % 4 # 3 => canvas[1].drawn[o] = v

\* The offsets of the colour bytes of the pixels away from the boundary.
Interior ==
    {o \in DOMAIN canvas[1].data :
        /\ o % 4 # 3
        /\ (o \div 4) % canvas[1].w \in 1..(canvas[1].w - 2)
        /\ (o \div 4) \div canvas[1].w \in 1..(canvas[1].h - 2)}

\* C15: for a uniform mid-gray image the threshold stage passes every value
\* through and the sharpened canvas holds the same value at every pixel away
\* from the boundary.
C15_MidGrayFlatFieldUnchanged ==
    \A v \in 50..128 :
        DrawnMidGray(v) =>
            /\ GrayscaleContrast(canvas[1].drawn) = canvas[1].drawn
            /\ \A o \in Interior : canvas[1].data[o] = v

\* C15 witness: a 3 x 3 image of gray 89 is enhanced to 89 in the middle, 178
\* on the edges and 255 (3 * 89 clamped) in the corners.
C15_Witness ==
    /\ DrawnMidGray(89)
    /\ canvas[1].w = 3 /\ canvas[1].h = 3
    /\ canvas[1].data[(1 * 3 + 1) * 4] = 89
    /\ canvas[1].data[(0 * 3 + 1) * 4] = 178
    /\ canvas[1].data[0] = 255

\* A step in which the engine delivers an event to the logger and a job of the
\* list changes: the handler stays where it is suspended, inside createWorker
\* or recognize, and the list is not cleared.
IsProgressStep ==
    /\ pc' = pc
    /\ pc \in {"createWorker", "recognize"}
    /\ results' # results
    /\ results' # <<>>

\* C16: only 'recognizing text' events change a job: while the engine is being
\* created no event changes any field of any job, and an event that changes
\* something is a recognizing event that sets the progress of the current job
\* to round(fraction * 100) and nothing else.
C16_OnlyRecognizingEventsSetProgress ==
    [][IsProgressStep =>
          /\ pc = "recognize"
          /\ Len(results') = Len(results)
          /\ \E f \in Fractions :
                \A k \in Jobs :
                    IF results[k].id = ids[i]
                    THEN results'[k] = [results[k] EXCEPT !.progress = MathRound100(f)]
                    ELSE results'[k] = results[k]]_vars

\* C16 witness: a recognizing event with fraction 0.336 has set the progress of
\* the job being recognized to 34.
C16_Witness ==
    /\ pc = "recognize"
    /\ i \in Jobs
    /\ results[i].status = "processing"
    /\ results[i].progress = 34

\* C17: a job in status 'error' has an empty numbers list and no rawText.
C17_ErrorJobHasNoTextNoNumbers ==
    \A k \in Jobs :
        results[k].status = "error" =>
            /\ results[k].numbers = <<>>
            /\ results[k].rawText = Undefined

\* C17, for the batches whose ids are pairwise distinct.
C17_ErrorJobHasNoTextNoNumbersIfIdsDistinct ==
    IdsDistinct => C17_ErrorJobHasNoTextNoNumbers

\* C17, second half: numbers and rawText of a job change only in a step that
\* makes the job 'completed'.
C17_PopulatedOnlyByCompletion ==
    [][\A k \in Kept :
          (results'[k].numbers # results[k].numbers
           \/ results'[k].rawText # results[k].rawText)
              => results'[k].status = "completed"]_vars

\* What a step may do to the jobs it keeps: identity and position stay, and a
\* job whose fields change is the job the loop is processing.
OnlyCurrentJobChanges ==
    \A k \in Kept :
        /\ results'[k].id = results[k].id
        /\ results'[k].fileName = results[k].fileName
        /\ results'[k] # results[k] => (isProcessing /\ i = k)

\* C18: every update of the processing loop changes only the job being
\* processed: id, fileName and position of a job never change, and its other
\* fields change only while the loop is processing that job.
C18_OnlyCurrentJobChanges == [][OnlyCurrentJobChanges]_vars

\* C18, for the batches whose ids are pairwise distinct.
C18_OnlyCurrentJobChangesIfIdsDistinct ==
    [][IdsDistinct => OnlyCurrentJobChanges]_vars

\* C19: the ids given to the jobs of a batch are pairwise distinct.
C19_IdsPairwiseDistinct ==
    \A j, k \in 1..Len(ids) : j # k => ids[j] # ids[k]

\* C20: once clearResults has emptied the list while a batch is in flight, the
\* list stays empty until the next submission (no update of the running loop
\* puts a job back), and the loop still ends with isProcessing false.
C20_ClearedStaysEmptyAndBatchEnds ==
    /\ [][(results = <<>> /\ results' # <<>>) => IsUploadStep]_vars
    /\ (isProcessing /\ results = <<>>) ~> ~isProcessing

\* C20 witness: the list was cleared during a batch of two and the loop has
\* gone on to recognize the second file.
C20_Witness ==
    /\ isProcessing
    /\ results = <<>>
    /\ Len(ids) = 2 /\ i = 2
    /\ pc = "terminate"

\* A step that accepts a submission: the jobs of a new batch are published.
IsAcceptStep == uploaded' # uploaded \/ ids' \notin {ids, <<>>}

\* C21: at most one batch is in flight: isProcessing is true exactly while a
\* handler is in its loop, a submission is accepted only while isProcessing is
\* false, and every accepted submission has files (one of zero files changes
\* neither results nor isProcessing).
C21_OneBatchInFlight ==
    /\ [](isProcessing <=> pc # "idle")
    /\ [](isProcessing => (i \in 1..(Len(ids) + 1) /\ Len(ids) > 0))
    /\ [][IsAcceptStep =>
             /\ ~isProcessing /\ pc = "idle"
             /\ isProcessing'
             /\ Len(uploaded') > 0 /\ Len(results') > 0]_vars
    /\ [][(isProcessing /\ ~isProcessing') => (pc = "loop" /\ i > Len(ids))]_vars

\* C21 witness: a second batch has been accepted after the first one ended.
C21_Witness ==
    /\ isProcessing
    /\ canvas # Undefined
    /\ pc = "loop" /\ i = 1
    /\ \A k \in Jobs : results[k].status = "pending"

====
